---- MODULE Spec2Model ----
(***************************************************************************)
(* arbitrage-finder edge function (supabase/functions/arbitrage-finder).   *)
(* One request handled by the Deno.serve handler: each action is the code  *)
(* the handler runs between two awaits.  Upstream services (market APIs,   *)
(* AI backends) answer nondeterministically.                               *)
(*                                                                         *)
(* Numbers are fixed-point: the JavaScript number v is the integer         *)
(* v * Unit, so that hundredths and their midpoints are exact.  NaN is a   *)
(* distinguished value outside the range; undefined numeric fields behave  *)
(* like NaN in every expression the code applies to them.                  *)
(* Optional values are sequences of length 0 (undefined/null) or 1.        *)
(***************************************************************************)
EXTENDS Integers, Sequences, FiniteSets, TLC

VARIABLES
    pc,             \* position of the handler: which await it is suspended on
    req,            \* the incoming Request: [method, body]
    url,            \* requestBody.url   (sequence of tokens, <<>> = falsy)
    model,          \* requestBody.model (sequence of tokens, <<>> = falsy)
    identifier,     \* slug / ticker extracted from the url
    sourcePlatform, \* detectPlatform(url), "" while undetermined
    searchPlatform, \* the opposite platform, "" while undetermined
    sourceEvent,    \* <<SourceEventData>> once fetched, <<>> before / null
    searchQuery,    \* result of generateSearchQuery
    searchResults,  \* SimplifiedMarket[] returned by the search
    response,       \* <<Response>> once the handler has returned
    calls,          \* log of the external steps started, in order
    received,       \* log of how each awaited upstream call was answered
    uuids,          \* number of crypto.randomUUID() values drawn
    arg,            \* argument of a function exercised on its own
    result          \* what that function returned

vars == <<pc, req, url, model, identifier, sourcePlatform, searchPlatform,
          sourceEvent, searchQuery, searchResults, response, calls, received,
          uuids, arg, result>>

-----------------------------------------------------------------------------
(* Bounds *)

MaxMarkets == 2     \* markets in one upstream payload

-----------------------------------------------------------------------------
(* Numbers *)

Unit == 2 * 100
NaN == 0 - 1
Num(n) == n * Unit

IsNaN(x) == x = NaN
Add(x, y) == IF IsNaN(x) \/ IsNaN(y) THEN NaN ELSE x + y
Sub(x, y) == IF IsNaN(x) \/ IsNaN(y) THEN NaN ELSE x - y
Half(x) == IF IsNaN(x) THEN NaN ELSE x \div 2
Times100(x) == IF IsNaN(x) THEN NaN ELSE x * 100
\* JavaScript a || b on numbers: 0 and NaN are falsy
OrElse(x, y) == IF IsNaN(x) \/ x = 0 THEN y ELSE x

None == <<>>
Some(x) == <<x>>

\* How a call completes: it returns a value or throws an Error with a message
Return(v) == [threw |-> FALSE, value |-> v, message |-> ""]
Throw(message) == [threw |-> TRUE, value |-> <<>>, message |-> message]

-----------------------------------------------------------------------------
(* URL parsing *)

\* String.prototype.toLowerCase / toUpperCase on the tokens URLs are made of
ToLower(t) ==
    CASE t = "Polymarket.COM" -> "polymarket.com"
      [] t = "Kalshi.com" -> "kalshi.com"
      [] t = "Fed-Cut" -> "fed-cut"
      [] OTHER -> t

ToUpper(t) ==
    CASE t = "kxfed-25" -> "KXFED-25"
      [] t = "kxfed" -> "KXFED"
      [] t = "fed-cut" -> "FED-CUT"
      [] t = "Fed-Cut" -> "FED-CUT"
      [] t = "event" -> "EVENT"
      [] t = "events" -> "EVENTS"
      [] t = "markets" -> "MARKETS"
      [] OTHER -> t

\* slug.replace(/-/g, ' ')
DashesToSpaces(t) ==
    CASE t = "fed-cut" -> "fed cut"
      [] OTHER -> t

\* "" stands for null
detectPlatform(u) ==
    IF \E i \in 1..Len(u) : ToLower(u[i]) = "polymarket.com" THEN "polymarket"
    ELSE IF \E i \in 1..Len(u) : ToLower(u[i]) = "kalshi.com" THEN "kalshi"
    ELSE ""

\* new URL(url): throws unless the text starts with a scheme and a host;
\* pathname is what follows the host
URLParses(u) == Len(u) >= 2 /\ u[1] = "https://"
Pathname(u) == SubSeq(u, 3, Len(u))

\* pathname.split('/').filter(p => p): the non-empty pieces between slashes
RECURSIVE PathParts(_)
PathParts(p) ==
    IF p = <<>> THEN <<>>
    ELSE IF Head(p) = "/" \/ Head(p) = "" THEN PathParts(Tail(p))
    ELSE <<Head(p)>> \o PathParts(Tail(p))

\* extractPolymarketSlug without its try/catch: the TypeError escapes
extractPolymarketSlugUnguarded(u) ==
    IF ~URLParses(u) THEN Throw("Invalid URL")
    ELSE LET pathParts == PathParts(Pathname(u))
         IN IF Len(pathParts) >= 2 /\ pathParts[1] = "event"
            THEN Return(Some(pathParts[2]))
            ELSE Return(None)

\* extractPolymarketSlug that lower-cases the slug it returns
extractPolymarketSlugLowered(u) ==
    IF ~URLParses(u) THEN Return(None)
    ELSE LET pathParts == PathParts(Pathname(u))
         IN IF Len(pathParts) >= 2 /\ pathParts[1] = "event"
            THEN Return(Some(ToLower(pathParts[2])))
            ELSE Return(None)

\* <<>> stands for null; the catch turns the TypeError of new URL into null
extractPolymarketSlug(u) ==
    IF ~URLParses(u) THEN Return(None)
    ELSE LET pathParts == PathParts(Pathname(u))
         IN IF Len(pathParts) >= 2 /\ pathParts[1] = "event"
            THEN Return(Some(pathParts[2]))
            ELSE Return(None)

\* extractKalshiTicker without the full-ticker branch: always the second
\* segment
extractKalshiTickerSecond(u) ==
    IF ~URLParses(u) THEN Return(None)
    ELSE LET pathParts == PathParts(Pathname(u))
         IN IF Len(pathParts) >= 2 /\ pathParts[1] \in {"markets", "events"}
            THEN Return(Some(ToUpper(pathParts[2])))
            ELSE Return(None)

\* extractKalshiTicker that knows /markets/ only
extractKalshiTickerMarketsOnly(u) ==
    IF ~URLParses(u) THEN Return(None)
    ELSE LET pathParts == PathParts(Pathname(u))
         IN IF Len(pathParts) >= 2 /\ pathParts[1] = "markets"
            THEN LET ticker == IF Len(pathParts) >= 4
                               THEN pathParts[Len(pathParts)]
                               ELSE pathParts[2]
                 IN Return(Some(ToUpper(ticker)))
            ELSE Return(None)

extractKalshiTicker(u) ==
    IF ~URLParses(u) THEN Return(None)
    ELSE LET pathParts == PathParts(Pathname(u))
         IN IF Len(pathParts) >= 2 /\ pathParts[1] \in {"markets", "events"}
            THEN LET ticker == IF Len(pathParts) >= 4
                               THEN pathParts[Len(pathParts)]
                               ELSE pathParts[2]
                 IN Return(Some(ToUpper(ticker)))
            ELSE Return(None)

-----------------------------------------------------------------------------
(* Requests the handler can receive *)

RECURSIVE SlashJoin(_)
SlashJoin(segs) ==
    IF segs = <<>> THEN <<>> ELSE <<"/", Head(segs)>> \o SlashJoin(Tail(segs))

\* "https://Polymarket.COM/event/fed-cut" as the tokens <<"https://",
\* "Polymarket.COM", "/", "event", "/", "fed-cut">>
Url(scheme, host, segs) ==
    (IF scheme = "" THEN <<>> ELSE <<scheme>>) \o <<host>> \o SlashJoin(segs)

Urls ==
    {Url("https://", "Polymarket.COM", <<"event", "fed-cut">>),
     Url("https://", "polymarket.com", <<"event", "fed-cut", "march">>),
     Url("https://", "example.com", <<"event", "fed-cut", "polymarket.com">>),
     Url("https://", "polymarket.com", <<"markets", "fed-cut">>),
     Url("https://", "polymarket.com", <<"event">>),
     Url("", "polymarket.com", <<"event", "fed-cut">>),
     Url("https://", "Kalshi.com", <<"markets", "kxfed", "fed-cut", "kxfed-25">>),
     Url("https://", "kalshi.com", <<"events", "kxfed-25">>),
     Url("https://", "kalshi.com", <<"markets", "kxfed", "fed-cut">>),
     Url("https://", "kalshi.com", <<"browse", "kxfed-25">>),
     Url("", "kalshi.com", <<"markets", "kxfed-25">>),
     Url("https://", "example.com", <<"x">>),
     Url("", "not a url", <<>>)}

\* model identifiers are token sequences so that startsWith is computable
Models == {<<"gpt-", "4.1">>, <<"grok-", "4-1-fast">>}

\* req.json(): rejects ("invalid"), or resolves to null or to a value whose
\* url / model properties are as given (a falsy property is <<>> / "")
Bodies ==
    {[kind |-> "invalid", url |-> <<>>, model |-> <<>>],
     [kind |-> "null", url |-> <<>>, model |-> <<>>]}
    \cup {[kind |-> "object", url |-> u, model |-> m] :
            u \in Urls \cup {<<>>}, m \in Models \cup {<<>>}}

Methods == {"OPTIONS", "GET", "POST"}

-----------------------------------------------------------------------------
(* Responses *)

\* new Response(null, { headers }) -- no body, default status 200
EmptyResponse ==
    [status |-> 200, hasBody |-> FALSE, success |-> FALSE, error |-> "",
     data |-> None, metadata |-> None]

\* { success: false, error } with no metadata
Failure(status, error) ==
    [status |-> status, hasBody |-> TRUE, success |-> FALSE, error |-> error,
     data |-> None, metadata |-> None]

Metadata(id, m, src, searched, tokens) ==
    [requestId |-> id, hasTimestamp |-> TRUE, hasProcessingTimeMs |-> TRUE,
     model |-> m, tokensUsed |-> tokens, sourceMarket |-> src,
     searchedMarket |-> searched]

FetchError(p) ==
    IF p = "polymarket"
    THEN "Could not fetch event data from polymarket. The event may not exist or have no markets."
    ELSE "Could not fetch event data from kalshi. The event may not exist or have no markets."

-----------------------------------------------------------------------------
(* Market Data Gateway: upstream payloads and their normalisation *)

SimplifiedMarket(title, yesPrice) == [title |-> title, yesPrice |-> yesPrice]

\* market.outcomePrices of the Gamma API: absent, or a string that is not
\* JSON, the JSON text null, or a JSON array whose first element parses
\* (parseFloat) to `first` -- NaN for an empty array or a non-numeric element
NoPrices == [kind |-> "absent", first |-> NaN]
BadPrices == [kind |-> "notjson", first |-> NaN]
NullPrices == [kind |-> "null", first |-> NaN]
EmptyPrices == [kind |-> "array", first |-> NaN]
Prices(first) == [kind |-> "array", first |-> first]

\* let yesPrice = 50; if (market.outcomePrices) try { ... } catch {}
PolymarketYesPrice(market) ==
    IF market.outcomePrices.kind = "array"
    THEN Times100(market.outcomePrices.first)
    ELSE Num(50)

\* the loop body shared by fetchPolymarketEvent and searchPolymarket:
\* title = market.question || market.title || ''; push when title is truthy
RECURSIVE PolymarketMarkets(_)
PolymarketMarkets(raw) ==
    IF raw = <<>> THEN <<>>
    ELSE LET market == Head(raw)
             title == IF market.question # "" THEN market.question
                      ELSE market.title
         IN (IF title # ""
             THEN <<SimplifiedMarket(title, PolymarketYesPrice(market))>>
             ELSE <<>>) \o PolymarketMarkets(Tail(raw))

\* market.last_price || ((market.yes_bid + market.yes_ask) / 2)
KalshiYesPrice(market) ==
    OrElse(market.last_price, Half(Add(market.yes_bid, market.yes_ask)))

RECURSIVE KalshiMarkets(_)
KalshiMarkets(raw) ==
    IF raw = <<>> THEN <<>>
    ELSE LET market == Head(raw)
         IN (IF market.title # ""
             THEN <<SimplifiedMarket(market.title, KalshiYesPrice(market))>>
             ELSE <<>>) \o KalshiMarkets(Tail(raw))

\* markets of the DFlow /search payload carry yesAsk / yesBid strings
\* (NaN = property absent or empty string, else the parseFloat value)
KalshiSearchYesPrice(market) ==
    IF ~IsNaN(market.yesAsk) /\ ~IsNaN(market.yesBid)
    THEN Half(Add(market.yesAsk, market.yesBid))
    ELSE IF ~IsNaN(market.yesAsk) THEN market.yesAsk
    ELSE IF ~IsNaN(market.yesBid) THEN market.yesBid
    ELSE Num(50)

RECURSIVE KalshiSearchMarkets(_)
KalshiSearchMarkets(raw) ==
    IF raw = <<>> THEN <<>>
    ELSE LET market == Head(raw)
         IN (IF market.title # ""
             THEN <<SimplifiedMarket(market.title, KalshiSearchYesPrice(market))>>
             ELSE <<>>) \o KalshiSearchMarkets(Tail(raw))

SourceEventData(eventTitle, markets, source) ==
    [eventTitle |-> eventTitle, markets |-> markets, source |-> source]

\* An upstream reply to an event lookup:
\*   kind "reject"  the request throws (network error; DFlow non-success)
\*   kind "status"  response.ok is false            (Gamma only)
\*   kind "badjson" response.json() rejects         (Gamma only)
\*   kind "null"    the payload is the JSON value null
\*   kind "event"   an object with title ("" = absent) and markets
\*                  (hasMarkets FALSE = absent or not an array)
\* Every failure is caught inside the function and becomes null.
fetchPolymarketEvent(slug, reply) ==
    IF reply.kind # "event" THEN Return(None)
    ELSE Return(Some(SourceEventData(
            IF reply.title # "" THEN reply.title ELSE DashesToSpaces(slug),
            IF reply.hasMarkets THEN PolymarketMarkets(reply.markets) ELSE <<>>,
            "polymarket")))

\* fetchKalshiEvent without its try/catch: upstream failures escape
fetchKalshiEventUnguarded(ticker, reply) ==
    IF reply.kind # "event" THEN Throw("DFlow request failed")
    ELSE Return(Some(SourceEventData(
            IF reply.title # "" THEN reply.title ELSE ticker,
            IF reply.hasMarkets THEN KalshiMarkets(reply.markets) ELSE <<>>,
            "kalshi")))

fetchKalshiEvent(ticker, reply) ==
    IF reply.kind # "event" THEN Return(None)
    ELSE Return(Some(SourceEventData(
            IF reply.title # "" THEN reply.title ELSE ticker,
            IF reply.hasMarkets THEN KalshiMarkets(reply.markets) ELSE <<>>,
            "kalshi")))

\* A reply to a search: kinds as above, "events" carrying an array of events
\* whose markets are present (hasMarkets) or not; "other" is a payload that
\* is no array (Gamma) / has no events array (DFlow).  Every failure is
\* caught inside the function and becomes the empty array.
RECURSIVE searchPolymarketEvents(_)
searchPolymarketEvents(events) ==
    IF events = <<>> THEN <<>>
    ELSE (IF Head(events).hasMarkets
          THEN PolymarketMarkets(Head(events).markets) ELSE <<>>)
         \o searchPolymarketEvents(Tail(events))

\* searchPolymarket without its try/catch: upstream failures escape
searchPolymarketUnguarded(query, reply) ==
    IF reply.kind \in {"reject", "badjson", "null"} THEN Throw("fetch failed")
    ELSE IF reply.kind # "events" THEN Return(<<>>)
    ELSE Return(searchPolymarketEvents(reply.events))

searchPolymarket(query, reply) ==
    IF reply.kind # "events" THEN Return(<<>>)
    ELSE Return(searchPolymarketEvents(reply.events))

RECURSIVE searchKalshiEvents(_)
searchKalshiEvents(events) ==
    IF events = <<>> THEN <<>>
    ELSE (IF Head(events).hasMarkets
          THEN KalshiSearchMarkets(Head(events).markets) ELSE <<>>)
         \o searchKalshiEvents(Tail(events))

searchKalshi(query, reply) ==
    IF reply.kind # "events" THEN Return(<<>>)
    ELSE Return(searchKalshiEvents(reply.events))

-----------------------------------------------------------------------------
(* AI functions *)

OPENAI_MODELS ==
    {<<"gpt-", "5.2">>, <<"gpt-", "5.1">>, <<"gpt-", "5-nano">>,
     <<"gpt-", "4.1">>, <<"gpt-", "4.1-mini">>}

\* the allow-list alone, without the prefix test
isOpenAIModelListed(m) == m \in OPENAI_MODELS

isOpenAIModel(m) == m \in OPENAI_MODELS \/ (Len(m) >= 1 /\ m[1] = "gpt-")

\* which of callOpenAIResponses / callGrokResponses the two agents call
Backend(m) == IF isOpenAIModel(m) THEN "openai" ELSE "grok"

\* content of the items of type "message", in order
RECURSIVE MessageTexts(_)
MessageTexts(output) ==
    IF output = <<>> THEN <<>>
    ELSE (IF Head(output).type = "message" THEN <<Head(output).text>> ELSE <<>>)
         \o MessageTexts(Tail(output))

\* texts.join(""): a text is a sequence of tokens (words, " ", quotes)
RECURSIVE Concat(_)
Concat(texts) ==
    IF texts = <<>> THEN <<>> ELSE Head(texts) \o Concat(Tail(texts))

IsSpace(t) == t \in {" ", "\n"}
IsQuote(t) == t \in {"'", "\""}

RECURSIVE TrimStart(_)
TrimStart(t) ==
    IF t # <<>> /\ IsSpace(Head(t)) THEN TrimStart(Tail(t)) ELSE t

RECURSIVE TrimEnd(_)
TrimEnd(t) ==
    IF t # <<>> /\ IsSpace(t[Len(t)]) THEN TrimEnd(SubSeq(t, 1, Len(t) - 1))
    ELSE t

Trim(t) == TrimEnd(TrimStart(t))

\* text.replace(/['"]/g, '')
StripQuotes(t) == SelectSeq(t, LAMBDA c : ~IsQuote(c))

\* cleaned.split(/\s+/) of a trimmed text: the maximal runs of non-space
\* tokens, each run one word (a sequence of tokens); "" splits into [""]
RECURSIVE SplitWords(_, _)
SplitWords(t, word) ==
    IF t = <<>> THEN <<word>>
    ELSE IF IsSpace(Head(t))
         THEN <<word>> \o SplitWords(TrimStart(t), <<>>)
         ELSE SplitWords(Tail(t), Append(word, Head(t)))

\* words.slice(0, 2).join(' ')
JoinWords(words) ==
    IF Len(words) = 0 THEN <<>>
    ELSE IF Len(words) = 1 THEN words[1]
    ELSE words[1] \o <<" ">> \o words[2]

\* the clean-up that keeps three words instead of two
CleanQueryThreeWords(text) ==
    LET cleaned == Trim(StripQuotes(text))
        words == SplitWords(cleaned, <<>>)
    IN IF Len(words) < 3
       THEN JoinWords(words)
       ELSE JoinWords(SubSeq(words, 1, 2)) \o <<" ">> \o words[3]

CleanQuery(text) ==
    LET cleaned == Trim(StripQuotes(text))
        words == SplitWords(cleaned, <<>>)
    IN JoinWords(SubSeq(words, 1, IF Len(words) < 2 THEN Len(words) ELSE 2))

\* A reply of an AI backend: kind "throw" (the client throws), "malformed"
\* (no iterable output: the for..of throws a TypeError), or "ok" with the
\* output items, the model name and usage?.total_tokens
generateSearchQuery(title, source, target, m, reply) ==
    IF reply.kind = "throw" THEN Throw("AI backend error")
    ELSE IF reply.kind = "malformed"
         THEN Throw("response.output is not iterable")
         ELSE Return(CleanQuery(Trim(Concat(MessageTexts(reply.output)))))

\* sourceEvent.markets[0]?.yesPrice || 50
FirstYesPrice(ev) ==
    OrElse(IF Len(ev.markets) >= 1
           THEN ev.markets[1].yesPrice ELSE NaN,
           Num(50))

RawData(ev) ==
    [eventTitle |-> ev.eventTitle, markets |-> ev.markets]

\* the ArbitrageMarketData built from the source event
SourceMarket(ev, source, u) ==
    [source |-> source,
     name |-> ev.eventTitle,
     identifier |-> ev.eventTitle,
     yesPrice |-> FirstYesPrice(ev),
     noPrice |-> Sub(Num(100), FirstYesPrice(ev)),
     url |-> u,
     rawData |-> Some(RawData(ev))]

\* a parse that swallows the SyntaxError and goes on with an empty object
JSONparseLenient(texts) ==
    IF Len(texts) = 1 /\ texts[1].json # "invalid" THEN Return(texts[1])
    ELSE Return([json |-> "object",
                 value |-> [isSameMarket |-> FALSE,
                            sameMarketConfidence |-> 0,
                            marketComparisonReasoning |-> <<>>,
                            matchedMarket |-> None,
                            arbitrage |-> None,
                            summary |-> <<>>,
                            risks |-> <<>>,
                            recommendation |-> ""]])

\* texts.join("\n") then JSON.parse: one fragment is parsed as it is; no
\* fragment is the empty text and several whole documents joined by a
\* newline are no JSON document
JSONparse(texts) ==
    IF Len(texts) = 1 /\ texts[1].json # "invalid" THEN Return(texts[1])
    ELSE Throw("Unexpected token in JSON")

\* the slot filled the other way round: the Judge's market in the source
\* platform's slot, the local projection in the other one
SlotSwapped(platform, ev, sourceMarket, matched) ==
    IF ev.source = platform THEN matched ELSE Some(sourceMarket)

\* polymarketData / kalshiData of the analysis:
\* sourceEvent.source === platform ? sourceMarket
\*                                 : parsed.matchedMarket || undefined
Slot(platform, ev, sourceMarket, matched) ==
    IF ev.source = platform THEN Some(sourceMarket) ELSE matched

analyzeArbitrage(ev, results, searched, m, reply) ==
    IF reply.kind = "throw" THEN Throw("AI backend error")
    ELSE IF reply.kind = "malformed"
    THEN Throw("response.output is not iterable")
    ELSE LET sourceMarket == SourceMarket(ev, ev.source, <<>>)
             doc == JSONparse(MessageTexts(reply.output))
         IN IF doc.threw THEN doc
            ELSE IF doc.value.json = "null"
            THEN Throw("Cannot read properties of null (reading 'isSameMarket')")
            ELSE LET parsed == doc.value.value
                 IN Return(
                    [analysis |->
                       [isSameMarket |-> parsed.isSameMarket,
                        sameMarketConfidence |-> parsed.sameMarketConfidence,
                        marketComparisonReasoning |-> parsed.marketComparisonReasoning,
                        polymarketData |->
                            Slot("polymarket", ev, sourceMarket,
                                 parsed.matchedMarket),
                        kalshiData |->
                            Slot("kalshi", ev, sourceMarket,
                                 parsed.matchedMarket),
                        arbitrage |-> parsed.arbitrage,
                        summary |-> parsed.summary,
                        risks |-> parsed.risks,
                        recommendation |-> parsed.recommendation],
                     modelUsed |-> reply.model,
                     tokensUsed |-> reply.tokens])

\* the canned analysis of the early-exit branch
EarlyExitAnalysis(ev, source, searched, query, u) ==
    [isSameMarket |-> FALSE,
     sameMarketConfidence |-> 0,
     marketComparisonReasoning |->
        <<"No matching markets found on", searched, "for query">> \o query,
     polymarketData |->
        IF source = "polymarket"
        THEN Some(SourceMarket(ev, "polymarket", u)) ELSE None,
     kalshiData |->
        IF source = "kalshi"
        THEN Some(SourceMarket(ev, "kalshi", u)) ELSE None,
     arbitrage |-> Some([hasArbitrage |-> FALSE]),
     summary |-> <<"No matching markets found on", searched>>,
     risks |-> <<"No matching market found on the other platform">>,
     recommendation |->
        "Try a different event or check if the market exists on both platforms."]

Success(analysis, metadata) ==
    [status |-> 200, hasBody |-> TRUE, success |-> TRUE, error |-> "",
     data |-> Some(analysis), metadata |-> Some(metadata)]

-----------------------------------------------------------------------------
(* What the upstream services can answer *)

Platforms == {"polymarket", "kalshi"}

Seqs(S, n) == UNION {[1..k -> S] : k \in 0..n}

\* raw markets of the Gamma API: "0.37" is 37/100, i.e. Num(37) \div 100
PolymarketRaw ==
    {[question |-> "Fed cut in March?", title |-> "", outcomePrices |-> Prices(Num(37) \div 100)],
     [question |-> "", title |-> "Fed cut in March?", outcomePrices |-> Prices(0)],
     [question |-> "Fed cut in March?", title |-> "ignored", outcomePrices |-> NoPrices],
     [question |-> "Fed cut in March?", title |-> "", outcomePrices |-> BadPrices],
     [question |-> "Fed cut in March?", title |-> "", outcomePrices |-> EmptyPrices],
     [question |-> "", title |-> "", outcomePrices |-> Prices(Num(37) \div 100)]}

\* raw markets of the DFlow /event payload: prices are 0..100 numbers
KalshiRaw ==
    {[title |-> "Fed cut in March?", last_price |-> Num(37), yes_bid |-> Num(36), yes_ask |-> Num(38)],
     [title |-> "Fed cut in March?", last_price |-> NaN, yes_bid |-> Num(40), yes_ask |-> Num(45)],
     [title |-> "Fed cut in March?", last_price |-> 0, yes_bid |-> 0, yes_ask |-> 0],
     [title |-> "Fed cut in March?", last_price |-> NaN, yes_bid |-> NaN, yes_ask |-> NaN],
     [title |-> "", last_price |-> Num(37), yes_bid |-> Num(36), yes_ask |-> Num(38)]}

EventReply(kind, title, hasMarkets, markets) ==
    [kind |-> kind, title |-> title, hasMarkets |-> hasMarkets, markets |-> markets]

EventReplies(raw, kinds) ==
    {EventReply(k, "", FALSE, <<>>) : k \in kinds}
    \cup {EventReply("event", t, FALSE, <<>>) : t \in {"", "Fed decision in March"}}
    \cup {EventReply("event", t, TRUE, ms) :
            t \in {"", "Fed decision in March"}, ms \in Seqs(raw, MaxMarkets)}

PolymarketEventReplies ==
    EventReplies(PolymarketRaw, {"reject", "status", "badjson", "null"})
KalshiEventReplies == EventReplies(KalshiRaw, {"reject", "null"})

\* raw markets inside search results
PolymarketSearchRaw ==
    {[question |-> "Will the Fed cut rates?", title |-> "", outcomePrices |-> Prices(Num(60) \div 100)],
     [question |-> "", title |-> "", outcomePrices |-> NoPrices]}

KalshiSearchRaw ==
    {[title |-> "Will the Fed cut rates?", yesAsk |-> Num(62) \div 100, yesBid |-> Num(60) \div 100],
     [title |-> "", yesAsk |-> NaN, yesBid |-> NaN]}

SearchEvents(raw) ==
    {[hasMarkets |-> FALSE, markets |-> <<>>]}
    \cup {[hasMarkets |-> TRUE, markets |-> ms] : ms \in Seqs(raw, MaxMarkets)}

SearchReplies(raw, kinds) ==
    {[kind |-> k, events |-> <<>>] : k \in kinds}
    \cup {[kind |-> "events", events |-> es] :
            es \in {<<>>} \cup {<<e>> : e \in SearchEvents(raw)}
                   \cup {<<e1, e2>> : e1 \in SearchEvents(raw), e2 \in SearchEvents(raw)}}

SearchFailures == {"reject", "status", "badjson", "null", "other"}

PolymarketSearchReplies == SearchReplies(PolymarketSearchRaw, SearchFailures)
KalshiSearchReplies == SearchReplies(KalshiSearchRaw, {"reject", "null", "other"})

AIReply(kind, output, m, tokens) ==
    [kind |-> kind, output |-> output, model |-> m, tokens |-> tokens]

Item(type, text) == [type |-> type, text |-> text]

QueryReplies ==
    {AIReply("throw", <<>>, <<>>, None), AIReply("malformed", <<>>, <<>>, None)}
    \cup {AIReply("ok", out, <<"served-model">>, Some(12)) : out \in
            {<<>>,
             <<Item("reasoning", <<"thinking">>),
               Item("message", <<"\"", "fed", "\"">>)>>,
             <<Item("message", <<" ", "'", "fed", " ">>),
               Item("message", <<" ", "rate", "'", " ", "cut", "\n">>)>>}}

\* texts the Judge backend can return: not JSON, the JSON value null, or a
\* JSON object
NotJson == [json |-> "invalid", value |-> <<>>]
JsonNull == [json |-> "null", value |-> <<>>]
JsonObject(v) == [json |-> "object", value |-> v]

Matched(source, yesPrice, noPrice) ==
    [source |-> source, name |-> "Will the Fed cut rates?",
     identifier |-> "FED-CUT", yesPrice |-> yesPrice, noPrice |-> noPrice,
     url |-> <<>>, rawData |-> None]

Verdict(same, matched, arbitrage) ==
    [isSameMarket |-> same,
     sameMarketConfidence |-> IF same THEN 90 ELSE 10,
     marketComparisonReasoning |-> <<"agent reasoning">>,
     matchedMarket |-> matched,
     arbitrage |-> arbitrage,
     summary |-> <<"agent summary">>,
     risks |-> <<"agent risk">>,
     recommendation |-> "agent recommendation"]

Verdicts ==
    {Verdict(FALSE, None, Some([hasArbitrage |-> FALSE])),
     Verdict(TRUE, None, None),
     Verdict(TRUE, Some(Matched("polymarket", Num(60), Num(30))),
             Some([hasArbitrage |-> TRUE]))}
    \cup {Verdict(TRUE, Some(Matched(p, Num(60), Num(40))),
                  Some([hasArbitrage |-> TRUE])) : p \in Platforms}

JudgeReplies ==
    {AIReply("throw", <<>>, <<>>, None), AIReply("malformed", <<>>, <<>>, None),
     AIReply("ok", <<>>, <<"served-model">>, None),
     AIReply("ok", <<Item("message", NotJson)>>, <<"served-model">>, Some(12)),
     AIReply("ok", <<Item("message", JsonNull)>>, <<"served-model">>, Some(12))}
    \cup {AIReply("ok", <<Item("reasoning", NotJson), Item("message", JsonObject(v))>>,
                  <<"served-model">>, t) : v \in Verdicts, t \in {None, Some(340)}}
    \cup {AIReply("ok", <<Item("message", JsonObject(v)), Item("message", JsonObject(v))>>,
                  <<"served-model">>, Some(340)) : v \in Verdicts}

-----------------------------------------------------------------------------
\* The state in which the handler is entered with one of the given requests
Start(requests) ==
    /\ pc = "start"
    /\ req \in requests
    /\ url = <<>>
    /\ model = <<>>
    /\ identifier = ""
    /\ sourcePlatform = ""
    /\ searchPlatform = ""
    /\ sourceEvent = None
    /\ searchQuery = <<>>
    /\ searchResults = <<>>
    /\ response = None
    /\ calls = <<>>
    /\ received = <<>>
    /\ uuids = 0
    /\ arg = <<>>
    /\ result = <<>>

Init == Start([method : Methods, body : Bodies])

\* The handler returns: the request is finished
Respond(r) ==
    /\ response' = Some(r)
    /\ pc' = "done"

\* the catch block answering with the default status instead of 500
CatchStatus200(message) ==
    /\ Respond([status |-> 200, hasBody |-> TRUE, success |-> FALSE,
                error |-> message, data |-> None,
                metadata |-> Some(Metadata(uuids + 1, <<"unknown">>, "unknown",
                                           "unknown", None))])
    /\ uuids' = uuids + 1

\* catch (error) of the handler: 500 with metadata of unknowns
Catch(message) ==
    /\ Respond([status |-> 500, hasBody |-> TRUE, success |-> FALSE,
                error |-> message, data |-> None,
                metadata |-> Some(Metadata(uuids + 1, <<"unknown">>, "unknown",
                                           "unknown", None))])
    /\ uuids' = uuids + 1

\* Entry of the handler up to `await req.json()`
Receive ==
    /\ pc = "start"
    /\ IF req.method = "OPTIONS" THEN Respond(EmptyResponse)
       ELSE IF req.method # "POST"
            THEN Respond(Failure(405, "Method not allowed. Use POST."))
            ELSE /\ pc' = "body"
                 /\ UNCHANGED response
    /\ UNCHANGED <<arg, result, req, url, model, identifier, sourcePlatform, searchPlatform,
                   sourceEvent, searchQuery, searchResults, calls, received,
                   uuids>>

Call(step, target) == [step |-> step, target |-> target]

\* What the Judge backend answered: it threw, its reply had no output list,
\* or the text it returned was no JSON ("notjson"), the JSON value null, or a
\* JSON object
JudgeAnswer(reply) ==
    IF reply.kind # "ok" THEN reply.kind
    ELSE LET texts == MessageTexts(reply.output)
         IN IF Len(texts) # 1 \/ texts[1].json = "invalid" THEN "notjson"
            ELSE texts[1].json

\* The matchedMarket of the Judge's JSON object, when it answered with one
JudgeMatched(reply) ==
    IF JudgeAnswer(reply) = "object"
    THEN MessageTexts(reply.output)[1].value.matchedMarket
    ELSE None

\* the entry of the Judge's answer in the log of answers
JudgeReceipt(reply) ==
    [step |-> "judge", target |-> JudgeAnswer(reply),
     matched |-> JudgeMatched(reply)]

\* the check without its second half: !sourceEvent only
SourceMissingNullOnly(ev) == ev = None

\* if (!sourceEvent || sourceEvent.markets.length === 0)
SourceMissing(ev) == ev = None \/ Len(ev[1].markets) = 0

\* the test written !searchResults: an array, empty or not, is truthy
NoResultsFalsy(results) == FALSE

\* the test off by one: a single candidate counts as none
NoResultsBelowTwo(results) == Len(results) <= 1

\* if (searchResults.length === 0)
NoResults(results) == Len(results) = 0

\* the search aimed at the platform the event came from
SamePlatform(p) == p

\* searchPlatform = sourcePlatform === 'polymarket' ? 'kalshi' : 'polymarket'
OtherPlatform(p) == IF p = "polymarket" THEN "kalshi" ELSE "polymarket"

\* From the resolution of `await req.json()` to `await fetch...Event(...)`:
\* body validation and step 1 up to the source lookup
ParseBody ==
    /\ pc = "body"
    /\ UNCHANGED <<arg, result, req, sourceEvent, searchQuery, searchResults, received>>
    /\ IF req.body.kind = "invalid"
       THEN /\ Respond(Failure(400, "Invalid JSON in request body"))
            /\ UNCHANGED <<url, model, identifier, sourcePlatform,
                           searchPlatform, calls, uuids>>
       ELSE IF req.body.kind = "null"
       THEN \* const { url, model } = null throws a TypeError
            /\ Catch("Cannot destructure property 'url' of 'requestBody' as it is null.")
            /\ UNCHANGED <<url, model, identifier, sourcePlatform,
                           searchPlatform, calls>>
       ELSE
         /\ url' = req.body.url
         /\ model' = req.body.model
         /\ IF url' = <<>>
            THEN /\ Respond(Failure(400, "Missing required parameter: 'url'"))
                 /\ UNCHANGED <<identifier, sourcePlatform, searchPlatform,
                                calls, uuids>>
            ELSE IF model' = <<>>
            THEN /\ Respond(Failure(400, "Missing required parameter: 'model'"))
                 /\ UNCHANGED <<identifier, sourcePlatform, searchPlatform,
                                calls, uuids>>
            ELSE
              /\ sourcePlatform' = detectPlatform(url')
              /\ IF sourcePlatform' = ""
                 THEN /\ Respond(Failure(400,
                            "Invalid URL. Must be a Polymarket or Kalshi market URL."))
                      /\ calls' = Append(calls, Call("resolve", ""))
                      /\ UNCHANGED <<identifier, searchPlatform, uuids>>
                 ELSE
                   LET id == IF sourcePlatform' = "polymarket"
                             THEN extractPolymarketSlug(url')
                             ELSE extractKalshiTicker(url')
                   IN /\ searchPlatform' = OtherPlatform(sourcePlatform')
                      /\ IF id.threw
                         THEN /\ Catch(id.message)
                              /\ calls' = Append(calls, Call("resolve", sourcePlatform'))
                              /\ UNCHANGED identifier
                         ELSE IF id.value = None
                         THEN /\ Respond(Failure(400,
                                    IF sourcePlatform' = "polymarket"
                                    THEN "Could not extract event slug from Polymarket URL"
                                    ELSE "Could not extract ticker from Kalshi URL"))
                              /\ calls' = Append(calls, Call("resolve", sourcePlatform'))
                              /\ UNCHANGED <<identifier, uuids>>
                         ELSE /\ identifier' = id.value[1]
                              /\ calls' = calls \o <<Call("resolve", sourcePlatform'),
                                                     Call("fetch", sourcePlatform')>>
                              /\ pc' = "fetch"
                              /\ UNCHANGED <<response, uuids>>

\* From the completion of the source lookup to `await generateSearchQuery`
FetchReturns ==
    /\ pc = "fetch"
    /\ UNCHANGED <<arg, result, req, url, model, identifier, sourcePlatform, searchPlatform,
                   searchQuery, searchResults>>
    /\ \E reply \in IF sourcePlatform = "polymarket"
                    THEN PolymarketEventReplies ELSE KalshiEventReplies :
         LET fetched == IF sourcePlatform = "polymarket"
                        THEN fetchPolymarketEvent(identifier, reply)
                        ELSE fetchKalshiEvent(identifier, reply)
         IN /\ received' = Append(received, Call("fetch", reply.kind))
            /\ IF fetched.threw
               THEN /\ Catch(fetched.message)
                    /\ UNCHANGED <<sourceEvent, calls>>
               ELSE /\ sourceEvent' = fetched.value
                    /\ IF SourceMissing(sourceEvent')
                       THEN /\ Respond(Failure(404, FetchError(sourcePlatform)))
                            /\ UNCHANGED <<calls, uuids>>
                       ELSE /\ calls' = Append(calls, Call("query", Backend(model)))
                            /\ pc' = "query"
                            /\ UNCHANGED <<response, uuids>>

\* From the completion of generateSearchQuery to `await search...(query)`
QueryReturns ==
    /\ pc = "query"
    /\ UNCHANGED <<arg, result, req, url, model, identifier, sourcePlatform, searchPlatform,
                   sourceEvent, searchResults>>
    /\ \E reply \in QueryReplies :
         LET query == generateSearchQuery(sourceEvent[1].eventTitle,
                                          sourcePlatform, searchPlatform,
                                          model, reply)
         IN /\ received' = Append(received, Call("query", reply.kind))
            /\ IF query.threw
               THEN /\ Catch(query.message)
                    /\ UNCHANGED <<searchQuery, calls>>
               ELSE /\ searchQuery' = query.value
                    /\ calls' = Append(calls, Call("search", searchPlatform))
                    /\ pc' = "search"
                    /\ UNCHANGED <<response, uuids>>

\* From the completion of the search to the early-exit response or to
\* `await analyzeArbitrage(...)`
SearchReturns ==
    /\ pc = "search"
    /\ UNCHANGED <<arg, result, req, url, model, identifier, sourcePlatform, searchPlatform,
                   sourceEvent, searchQuery>>
    /\ \E reply \in IF searchPlatform = "polymarket"
                    THEN PolymarketSearchReplies ELSE KalshiSearchReplies :
         LET found == IF searchPlatform = "polymarket"
                      THEN searchPolymarket(searchQuery, reply)
                      ELSE searchKalshi(searchQuery, reply)
         IN /\ received' = Append(received, Call("search", reply.kind))
            /\ IF found.threw
               THEN /\ Catch(found.message)
                    /\ UNCHANGED <<searchResults, calls>>
               ELSE /\ searchResults' = found.value
                    /\ IF NoResults(searchResults')
                       THEN /\ Respond(Success(
                                   EarlyExitAnalysis(sourceEvent[1], sourcePlatform,
                                                     searchPlatform, searchQuery, url),
                                   Metadata(uuids + 1, model, sourcePlatform,
                                            searchPlatform, None)))
                            /\ uuids' = uuids + 1
                            /\ UNCHANGED calls
                       ELSE /\ calls' = Append(calls, Call("judge", Backend(model)))
                            /\ pc' = "judge"
                            /\ UNCHANGED <<response, uuids>>

\* JudgeReturns with a retry: a failed Judge call is issued again
JudgeReturnsRetry ==
    /\ pc = "judge"
    /\ UNCHANGED <<arg, result, req, url, model, identifier, sourcePlatform, searchPlatform,
                   sourceEvent, searchQuery, searchResults>>
    /\ \E reply \in JudgeReplies :
         LET judged == analyzeArbitrage(sourceEvent[1], searchResults,
                                        searchPlatform, model, reply)
         IN /\ received' = Append(received, JudgeReceipt(reply))
            /\ IF judged.threw
               THEN /\ calls' = Append(calls, Call("judge", Backend(model)))
                    /\ UNCHANGED <<pc, response, uuids>>
               ELSE /\ Respond(Success(
                           judged.value.analysis,
                           Metadata(uuids + 1, judged.value.modelUsed,
                                    sourcePlatform, searchPlatform,
                                    judged.value.tokensUsed)))
                    /\ uuids' = uuids + 1
                    /\ UNCHANGED calls

\* From the completion of analyzeArbitrage to the final response
JudgeReturns ==
    /\ pc = "judge"
    /\ UNCHANGED <<arg, result, req, url, model, identifier, sourcePlatform, searchPlatform,
                   sourceEvent, searchQuery, searchResults, calls>>
    /\ \E reply \in JudgeReplies :
         LET judged == analyzeArbitrage(sourceEvent[1], searchResults,
                                        searchPlatform, model, reply)
         IN /\ received' = Append(received, JudgeReceipt(reply))
            /\ IF judged.threw
               THEN Catch(judged.message)
               ELSE /\ Respond(Success(
                           judged.value.analysis,
                           Metadata(uuids + 1, judged.value.modelUsed,
                                    sourcePlatform, searchPlatform,
                                    judged.value.tokensUsed)))
                    /\ uuids' = uuids + 1

Next ==
    \/ Receive
    \/ ParseBody
    \/ FetchReturns
    \/ QueryReturns
    \/ SearchReturns
    \/ JudgeReturns

Spec == Init /\ [][Next]_vars

\* The handler when every awaited call (req.json(), the market APIs, the AI
\* backends) eventually returns or throws: the step that waits for it is
\* eventually taken
SpecFair == Spec /\ WF_vars(Next)

\* Requests that differ in the model id only: ids of the allow-list, ids
\* that only carry the prefix, and ids that carry it in another case or in
\* another place
RoutingModels ==
    {<<"gpt-", "4.1">>, <<"gpt-", "5-nano">>, <<"gpt-", "oss-120b">>,
     <<"gpt-">>, <<"grok-", "4-1-fast">>, <<"GPT-", "4.1">>,
     <<"my-", "gpt-", "4.1">>}

RoutingUrls ==
    {Url("https://", "polymarket.com", <<"event", "fed-cut">>),
     Url("https://", "kalshi.com", <<"events", "kxfed-25">>)}

InitRouting ==
    Start([method : {"POST"},
           body : {[kind |-> "object", url |-> u, model |-> m] :
                     u \in RoutingUrls, m \in RoutingModels}])

SpecRouting == InitRouting /\ [][Next]_vars

\* Requests that differ in the URL only: every path of at most MaxSegs
\* segments on either platform's host, with and without a scheme.  The
\* handler is followed up to the end of step 1.
MaxSegs == 4

Segs == {"event", "events", "markets", "Fed-Cut", "kxfed-25"}

ResolveUrls ==
    {Url(scheme, host, segs) :
        scheme \in {"https://", ""},
        host \in {"polymarket.com", "Kalshi.com"},
        segs \in Seqs(Segs, MaxSegs)}

InitResolve ==
    Start([method : {"POST"},
           body : {[kind |-> "object", url |-> u, model |-> <<"gpt-", "4.1">>] :
                     u \in ResolveUrls}])

NextResolve ==
    \/ Receive
    \/ ParseBody

SpecResolve == InitResolve /\ [][NextResolve]_vars

-----------------------------------------------------------------------------
(* The four normalisation paths of the Market Data Gateway on their own *)

\* Every variable of the handler at rest
Idle ==
    /\ req = [method |-> "", body |-> [kind |-> "", url |-> <<>>, model |-> <<>>]]
    /\ url = <<>>
    /\ model = <<>>
    /\ identifier = ""
    /\ sourcePlatform = ""
    /\ searchPlatform = ""
    /\ sourceEvent = None
    /\ searchQuery = <<>>
    /\ searchResults = <<>>
    /\ response = None
    /\ calls = <<>>
    /\ received = <<>>
    /\ uuids = 0

HandlerVars ==
    <<req, url, model, identifier, sourcePlatform, searchPlatform,
      sourceEvent, searchQuery, searchResults, response, calls, received,
      uuids>>

\* outcomePrices: absent, not JSON, null, "[]", or an array whose first
\* element is a decimal probability string ("0", "0.37", "0.5", "1")
OutcomePrices ==
    {NoPrices, BadPrices, NullPrices, EmptyPrices}
    \cup {Prices(d) : d \in {0, Num(37) \div 100, Num(1) \div 2, Num(1)}}

PolymarketPriced ==
    {[question |-> "Fed cut in March?", title |-> "", outcomePrices |-> o] :
        o \in OutcomePrices}

\* last_price / yes_bid / yes_ask: absent (NaN) or 0..100 numbers
KalshiPriced ==
    {[title |-> "Fed cut in March?", last_price |-> l,
      yes_bid |-> ba[1], yes_ask |-> ba[2]] :
        l \in {NaN, 0, Num(37), Num(100)},
        ba \in {<<NaN, NaN>>, <<0, 0>>, <<Num(40), Num(45)>>,
                <<Num(99), Num(100)>>}}

\* yesAsk / yesBid: absent (NaN) or decimal probability strings
KalshiSearchPriced ==
    {[title |-> "Will the Fed cut rates?", yesAsk |-> a, yesBid |-> b] :
        a \in {NaN, 0, Num(62) \div 100, Num(1)},
        b \in {NaN, 0, Num(60) \div 100}}

Fetched(raw) ==
    {EventReply("event", "Fed decision in March", TRUE, ms) :
        ms \in Seqs(raw, MaxMarkets)}

Found(raw) ==
    {[kind |-> "events", events |-> <<[hasMarkets |-> TRUE, markets |-> ms]>>] :
        ms \in Seqs(raw, MaxMarkets)}

PriceArgs ==
    [fn : {"fetchPolymarketEvent"}, reply : Fetched(PolymarketPriced)]
    \cup [fn : {"fetchKalshiEvent"}, reply : Fetched(KalshiPriced)]
    \cup [fn : {"searchPolymarket"}, reply : Found(PolymarketPriced)]
    \cup [fn : {"searchKalshi"}, reply : Found(KalshiSearchPriced)]

InitPrices ==
    /\ pc = "call"
    /\ arg \in PriceArgs
    /\ result = <<>>
    /\ Idle

Returns(fn, completion) ==
    /\ pc = "call"
    /\ arg.fn = fn
    /\ result' = completion
    /\ pc' = "returned"
    /\ UNCHANGED <<arg, HandlerVars>>

CallFetchPolymarketEvent ==
    Returns("fetchPolymarketEvent", fetchPolymarketEvent("fed-cut", arg.reply))

CallFetchKalshiEvent ==
    Returns("fetchKalshiEvent", fetchKalshiEvent("KXFED-25", arg.reply))

CallSearchPolymarket ==
    Returns("searchPolymarket", searchPolymarket(<<"fed">>, arg.reply))

CallSearchKalshi ==
    Returns("searchKalshi", searchKalshi(<<"fed">>, arg.reply))

NextPrices ==
    \/ CallFetchPolymarketEvent
    \/ CallFetchKalshiEvent
    \/ CallSearchPolymarket
    \/ CallSearchKalshi

SpecPrices == InitPrices /\ [][NextPrices]_vars

-----------------------------------------------------------------------------
(* The query synthesis on generated completion texts, next to one request *)
(* that runs through the handler                                          *)

MaxText == 5

\* the pieces a completion text is made of: words, white space, quotes
TextTokens == {"fed", "rate", " ", "\n", "'", "\""}

QueryTexts == Seqs(TextTokens, MaxText)

QueryArgs ==
    [fn : {"generateSearchQuery"},
     reply : {AIReply("ok", <<Item("message", t)>>, <<"served-model">>, Some(12)) :
                t \in QueryTexts}]

CallGenerateSearchQuery ==
    Returns("generateSearchQuery",
            generateSearchQuery("Fed decision in March", "polymarket",
                                "kalshi", <<"gpt-", "4.1">>, arg.reply))

InitQuery ==
    \/ /\ pc = "call"
       /\ arg \in QueryArgs
       /\ result = <<>>
       /\ Idle
    \/ Start([method : {"POST"},
              body : {[kind |-> "object",
                       url |-> Url("https://", "polymarket.com",
                                   <<"event", "fed-cut">>),
                       model |-> <<"gpt-", "4.1">>]}])

NextQuery ==
    \/ CallGenerateSearchQuery
    \/ Next

SpecQuery == InitQuery /\ [][NextQuery]_vars

-----------------------------------------------------------------------------
(* Reading the logs *)

Count(step) == Cardinality({i \in 1..Len(calls) : calls[i].step = step})

HasAnswer(step) == \E i \in 1..Len(received) : received[i].step = step

AnswerOf(step) ==
    received[CHOOSE i \in 1..Len(received) : received[i].step = step].target

Responded == response # None

Order == <<"resolve", "fetch", "query", "search", "judge">>

-----------------------------------------------------------------------------
(* C1: Early exit.  When the source event was fetched with at least one    *)
(* market, the query synthesis returned and the search returned no         *)
(* candidate, the Judge is never called, the AI backend is called exactly  *)
(* once, and the response is 200, success, isSameMarket false, confidence  *)
(* 0, hasArbitrage false.                                                  *)
EarlyExitCase ==
    /\ sourceEvent # None
    /\ Len(sourceEvent[1].markets) >= 1
    /\ HasAnswer("query")
    /\ AnswerOf("query") = "ok"
    /\ HasAnswer("search")
    /\ Len(searchResults) = 0

C1_EarlyExit ==
    EarlyExitCase =>
        /\ Count("judge") = 0
        /\ Count("query") + Count("judge") = 1
        /\ pc = "done"
        /\ Responded
        /\ response[1].status = 200
        /\ response[1].success
        /\ response[1].data # None
        /\ response[1].data[1].isSameMarket = FALSE
        /\ response[1].data[1].sameMarketConfidence = 0
        /\ response[1].data[1].arbitrage = Some([hasArbitrage |-> FALSE])

C1_Witness ==
    /\ EarlyExitCase
    /\ AnswerOf("search") = "events"
    /\ Responded
    /\ response[1].status = 200

(* C2: Pipeline ordering.  The external steps of a request are started in  *)
(* the order resolve, fetch, query, search, judge, none of them twice, and *)
(* each only after the step before it has completed successfully.          *)
C2_PipelineOrder ==
    /\ Len(calls) <= Len(Order)
    /\ \A i \in 1..Len(calls) : calls[i].step = Order[i]
    /\ Len(received) <= Len(calls)
    /\ \A i \in 1..Len(received) : received[i].step = Order[i + 1]
    /\ Count("fetch") = 1 => identifier # ""
    /\ Count("query") = 1 =>
          /\ HasAnswer("fetch")
          /\ AnswerOf("fetch") = "event"
          /\ sourceEvent # None
          /\ Len(sourceEvent[1].markets) >= 1
    /\ Count("search") = 1 => HasAnswer("query") /\ AnswerOf("query") = "ok"
    /\ Count("judge") = 1 => HasAnswer("search")

C2_Witness ==
    /\ pc = "done"
    /\ Len(calls) = Len(Order)
    /\ Responded
    /\ response[1].success

(* C3: Every response to a POST request carries metadata with a fresh      *)
(* requestId, a timestamp and processingTimeMs, and its platform fields    *)
(* read "unknown" only while the platform is undetermined.                 *)
C3_MetadataOnEveryResponse ==
    (Responded /\ req.method = "POST") =>
        /\ response[1].metadata # None
        /\ response[1].metadata[1].requestId = uuids
        /\ uuids >= 1
        /\ response[1].metadata[1].hasTimestamp
        /\ response[1].metadata[1].hasProcessingTimeMs
        /\ response[1].metadata[1].sourceMarket = "unknown" => sourcePlatform = ""

(* C4: Malformed agent output.  When the Judge backend returns text that   *)
(* is not JSON, the request ends with 500, success false and no data, and  *)
(* the Judge has been called once only.                                    *)
MalformedAgentCase == HasAnswer("judge") /\ AnswerOf("judge") = "notjson"

C4_MalformedAgentOutput ==
    MalformedAgentCase =>
        /\ pc = "done"
        /\ Responded
        /\ response[1].status = 500
        /\ ~response[1].success
        /\ response[1].data = None
        /\ Count("judge") = 1

C4_Witness ==
    /\ MalformedAgentCase
    /\ Responded
    /\ response[1].status = 500

(* C5: Source lookup failure.  When the source lookup yields nothing or an *)
(* event without markets, the request ends with 404, success false and an  *)
(* error naming the source platform, and neither an AI backend nor the     *)
(* search has been called.                                                 *)
SourceLookupFailed ==
    /\ HasAnswer("fetch")
    /\ \/ AnswerOf("fetch") # "event"
       \/ sourceEvent = None
       \/ Len(sourceEvent[1].markets) = 0

C5_SourceLookupFailure ==
    SourceLookupFailed =>
        /\ pc = "done"
        /\ Responded
        /\ response[1].status = 404
        /\ ~response[1].success
        /\ response[1].data = None
        /\ response[1].error = FetchError(calls[2].target)
        /\ calls[2].target = sourcePlatform
        /\ Count("query") = 0
        /\ Count("search") = 0
        /\ Count("judge") = 0

C5_Witness ==
    /\ SourceLookupFailed
    /\ AnswerOf("fetch") = "event"
    /\ sourceEvent # None
    /\ Responded
    /\ response[1].status = 404

(* C6: Fail-soft search.  When the search of the opposite platform fails   *)
(* upstream, the candidates are empty and the request ends with the        *)
(* early-exit response, 200 and success, which is the very response of a   *)
(* search that found nothing.                                              *)
SearchFailed == HasAnswer("search") /\ AnswerOf("search") \in SearchFailures

C6_FailSoftSearch ==
    SearchFailed =>
        /\ pc = "done"
        /\ searchResults = <<>>
        /\ Responded
        /\ response[1].status = 200
        /\ response[1].success
        /\ response[1].error = ""
        /\ response[1] =
              Success(EarlyExitAnalysis(sourceEvent[1], sourcePlatform,
                                        searchPlatform, searchQuery, url),
                      Metadata(uuids, model, sourcePlatform, searchPlatform,
                               None))

C6_Witness ==
    /\ SearchFailed
    /\ AnswerOf("search") = "status"
    /\ Responded
    /\ response[1].status = 200

(* C7: Request validation.  For every POST body (parsable as JSON) that    *)
(* lacks a url or a model the request ends with 400, success false and an  *)
(* error naming the missing field, and no external step is started.        *)
LacksParameter ==
    /\ req.method = "POST"
    /\ req.body.kind # "invalid"
    /\ (req.body.url = <<>> \/ req.body.model = <<>>)

C7_MissingParameter ==
    (LacksParameter /\ Responded) =>
        /\ response[1].status = 400
        /\ ~response[1].success
        /\ response[1].error =
              IF req.body.url = <<>>
              THEN "Missing required parameter: 'url'"
              ELSE "Missing required parameter: 'model'"
        /\ calls = <<>>

(* C8: URL rejection.  For every url that names neither platform, or that  *)
(* cannot be parsed or lacks the identifier pattern of its platform, the   *)
(* request ends with 400 and success false, never 500, and no market API   *)
(* or AI backend is called.                                                *)
HasDomain(u, domain) == \E i \in 1..Len(u) : ToLower(u[i]) = domain

LacksPattern(u) ==
    LET parts == PathParts(Pathname(u))
    IN IF HasDomain(u, "polymarket.com")
       THEN ~(Len(parts) >= 2 /\ parts[1] = "event")
       ELSE ~(Len(parts) >= 2 /\ parts[1] \in {"markets", "events"})

Unresolvable(u) ==
    \/ ~HasDomain(u, "polymarket.com") /\ ~HasDomain(u, "kalshi.com")
    \/ ~URLParses(u)
    \/ LacksPattern(u)

UrlRejectionCase ==
    /\ req.method = "POST"
    /\ req.body.kind = "object"
    /\ req.body.url # <<>>
    /\ req.body.model # <<>>
    /\ Unresolvable(req.body.url)

C8_UrlRejection ==
    UrlRejectionCase =>
        /\ Count("fetch") = 0
        /\ Count("query") = 0
        /\ Count("search") = 0
        /\ Count("judge") = 0
        /\ Responded =>
              /\ response[1].status = 400
              /\ ~response[1].success
              /\ response[1].data = None

C8_Witness ==
    /\ UrlRejectionCase
    /\ HasDomain(url, "polymarket.com")
    /\ ~URLParses(url)
    /\ Responded
    /\ response[1].status = 400

(* C9: At-most-once upstream calls.  In every request the source lookup,   *)
(* the search, the query synthesis and the Judge are each called at most   *)
(* once, also after a failure.                                             *)
C9_AtMostOnce ==
    \A step \in {"fetch", "query", "search", "judge"} : Count(step) <= 1

C9_Witness ==
    /\ pc = "done"
    /\ HasAnswer("judge")
    /\ AnswerOf("judge") = "throw"
    /\ Count("judge") = 1
    /\ Responded
    /\ response[1].status = 500

(* C10: Price sum.  Every ArbitrageMarketData of a response, in the slot   *)
(* of the source platform and in the slot of the matched candidate, has    *)
(* yesPrice + noPrice = 100.                                               *)
PriceSumOk(slot) ==
    slot # None => Add(slot[1].yesPrice, slot[1].noPrice) = Num(100)

C10_PriceSum ==
    (Responded /\ response[1].data # None) =>
        /\ PriceSumOk(response[1].data[1].polymarketData)
        /\ PriceSumOk(response[1].data[1].kalshiData)

(* C11: Slot assignment.  In every success response the slot of the source *)
(* platform holds the projection built locally from the source event,      *)
(* with source equal to the source platform, whatever the Judge's JSON     *)
(* contains; the slot of the other platform holds the Judge's              *)
(* matchedMarket when it gave one and is unset otherwise, and is always    *)
(* unset on the early exit.                                                *)
SlotOf(analysis, platform) ==
    IF platform = "polymarket" THEN analysis.polymarketData
    ELSE analysis.kalshiData

JudgeGave ==
    IF HasAnswer("judge")
    THEN received[CHOOSE i \in 1..Len(received) :
                      received[i].step = "judge"].matched
    ELSE None

IsLocalProjection(slot) ==
    /\ slot # None
    /\ slot[1].source = sourcePlatform
    /\ slot[1].name = sourceEvent[1].eventTitle
    /\ slot[1].identifier = sourceEvent[1].eventTitle
    /\ slot[1].rawData = Some([eventTitle |-> sourceEvent[1].eventTitle,
                               markets |-> sourceEvent[1].markets])

C11_SlotAssignment ==
    (Responded /\ response[1].success) =>
        /\ IsLocalProjection(SlotOf(response[1].data[1], sourcePlatform))
        /\ SlotOf(response[1].data[1], searchPlatform) = JudgeGave

\* the Judge named a market of the source platform itself, and the source
\* slot still holds the local projection
C11_Witness ==
    /\ Responded
    /\ response[1].success
    /\ HasAnswer("judge")
    /\ JudgeGave # None
    /\ JudgeGave[1].source = sourcePlatform
    /\ SlotOf(response[1].data[1], searchPlatform) = JudgeGave
    /\ SlotOf(response[1].data[1], sourcePlatform) # JudgeGave

(* C12: Model routing.  For a model id that is in the allow-list or begins *)
(* with "gpt-", the query synthesis and the Judge both call the OpenAI     *)
(* backend and never the Grok backend; for every other id both call the    *)
(* Grok backend and never the OpenAI backend.                              *)
AgentCalls == {i \in 1..Len(calls) : calls[i].step \in {"query", "judge"}}

ListedOrPrefixed ==
    \/ model \in {<<"gpt-", "5.2">>, <<"gpt-", "5.1">>, <<"gpt-", "5-nano">>,
                  <<"gpt-", "4.1">>, <<"gpt-", "4.1-mini">>}
    \/ (model # <<>> /\ Head(model) = "gpt-")

C12_ModelRouting ==
    \A i \in AgentCalls :
        calls[i].target = IF ListedOrPrefixed THEN "openai" ELSE "grok"

\* both agents ran for an id that only carries the prefix
C12_Witness ==
    /\ pc = "done"
    /\ model = <<"gpt-", "oss-120b">>
    /\ Count("query") = 1
    /\ Count("judge") = 1
    /\ \A i \in AgentCalls : calls[i].target = "openai"

\* both agents ran for an id that carries the prefix in upper case
C12_WitnessOther ==
    /\ pc = "done"
    /\ model = <<"GPT-", "4.1">>
    /\ Count("query") = 1
    /\ Count("judge") = 1
    /\ \A i \in AgentCalls : calls[i].target = "grok"

-----------------------------------------------------------------------------
(* Step 1 on generated URLs *)

\* step 1 has run on the URL of the request
ResolutionDone == pc \notin {"start", "body"} /\ url # <<>>

Parts == PathParts(Pathname(url))

Accepted == pc = "fetch" /\ ~Responded /\ identifier # ""

Rejected400 ==
    /\ Responded
    /\ response[1].status = 400
    /\ identifier = ""
    /\ Count("fetch") = 0

(* C13, as stated: Kalshi identifier extraction.  For every Kalshi URL     *)
(* with 4 or more path segments the extracted identifier is the last       *)
(* segment uppercased, and for every URL with exactly 2 segments whose     *)
(* first segment is "markets" or "events" it is the second segment         *)
(* uppercased.                                                             *)
C13_KalshiTicker ==
    (ResolutionDone /\ sourcePlatform = "kalshi" /\ URLParses(url)) =>
        /\ Len(Parts) >= 4 => identifier = ToUpper(Parts[Len(Parts)])
        /\ (Len(Parts) = 2 /\ Parts[1] \in {"markets", "events"}) =>
                identifier = ToUpper(Parts[2])

(* C13, amended: for every Kalshi URL whose first path segment is          *)
(* "markets" or "events", the extracted identifier is the last segment     *)
(* uppercased when there are 4 or more segments, and the second segment    *)
(* uppercased when there are exactly 2.                                    *)
C13_KalshiTickerAfterMarketsOrEvents ==
    (/\ ResolutionDone
     /\ sourcePlatform = "kalshi"
     /\ URLParses(url)
     /\ Len(Parts) >= 1
     /\ Parts[1] \in {"markets", "events"}) =>
        /\ Len(Parts) >= 4 => identifier = ToUpper(Parts[Len(Parts)])
        /\ Len(Parts) = 2 => identifier = ToUpper(Parts[2])

C13_Witness ==
    /\ ResolutionDone
    /\ sourcePlatform = "kalshi"
    /\ URLParses(url)
    /\ Len(Parts) = 4
    /\ Parts[1] = "markets"
    /\ Parts[2] = "Fed-Cut"
    /\ Parts[4] = "kxfed-25"
    /\ identifier = "KXFED-25"
    /\ Accepted

(* C14, as stated: Kalshi URL shapes.  A Kalshi URL is accepted only for   *)
(* /markets/{a}/{b}/{fullTicker} (4 or more segments) or /events/{ticker}  *)
(* or /markets/{ticker}; every other path shape (exactly 3 segments, a     *)
(* first segment other than markets/events, ...) yields no identifier and  *)
(* the request fails with HTTP 400.                                        *)
StatedKalshiShape ==
    /\ URLParses(url)
    /\ \/ Len(Parts) >= 4 /\ Parts[1] = "markets"
       \/ Len(Parts) = 2 /\ Parts[1] \in {"markets", "events"}

C14_KalshiShapes ==
    (ResolutionDone /\ sourcePlatform = "kalshi" /\ ~StatedKalshiShape) =>
        Rejected400

(* C14, amended: a Kalshi URL is accepted exactly when it parses and its   *)
(* path has 2 or more segments of which the first is "markets" or          *)
(* "events" (with exactly 3 segments the identifier is the second segment  *)
(* uppercased); every other shape yields no identifier and the request     *)
(* fails with HTTP 400.                                                    *)
AcceptedKalshiShape ==
    /\ URLParses(url)
    /\ Len(Parts) >= 2
    /\ Parts[1] \in {"markets", "events"}

C14_KalshiShapesWithFallback ==
    (ResolutionDone /\ sourcePlatform = "kalshi") =>
        /\ AcceptedKalshiShape => Accepted
        /\ (AcceptedKalshiShape /\ Len(Parts) = 3) =>
                identifier = ToUpper(Parts[2])
        /\ ~AcceptedKalshiShape => Rejected400

\* a path of exactly 3 segments is accepted
C14_Witness ==
    /\ ResolutionDone
    /\ sourcePlatform = "kalshi"
    /\ URLParses(url)
    /\ Len(Parts) = 3
    /\ Parts[1] = "events"
    /\ Parts[2] = "kxfed-25"
    /\ identifier = "KXFED-25"
    /\ Accepted

(* C15, as stated: Polymarket identifier extraction.  For every Polymarket *)
(* URL whose path contains a literal "event" segment followed by a         *)
(* segment, the extracted identifier is exactly the segment right after    *)
(* "event", unchanged in case, trailing segments ignored; a URL without    *)
(* that pattern yields no identifier and the request fails with HTTP 400.  *)
EventAt(i) == i < Len(Parts) /\ Parts[i] = "event"

HasEventPattern == URLParses(url) /\ \E i \in 1..Len(Parts) : EventAt(i)

FirstEvent == CHOOSE i \in 1..Len(Parts) :
                 EventAt(i) /\ \A j \in 1..(i - 1) : ~EventAt(j)

C15_PolymarketSlug ==
    (ResolutionDone /\ sourcePlatform = "polymarket") =>
        IF HasEventPattern
        THEN Accepted /\ identifier = Parts[FirstEvent + 1]
        ELSE Rejected400

(* C15, amended: for every Polymarket URL whose FIRST path segment is the  *)
(* literal "event" and is followed by a segment, the extracted identifier  *)
(* is exactly the second segment, unchanged in case, trailing segments     *)
(* ignored; every other URL yields no identifier and the request fails     *)
(* with HTTP 400.                                                          *)
LeadingEvent == URLParses(url) /\ Len(Parts) >= 2 /\ Parts[1] = "event"

C15_PolymarketSlugLeadingEvent ==
    (ResolutionDone /\ sourcePlatform = "polymarket") =>
        IF LeadingEvent
        THEN Accepted /\ identifier = Parts[2]
        ELSE Rejected400

C15_Witness ==
    /\ ResolutionDone
    /\ sourcePlatform = "polymarket"
    /\ LeadingEvent
    /\ Len(Parts) = 3
    /\ Parts[2] = "Fed-Cut"
    /\ identifier = "Fed-Cut"
    /\ Accepted

-----------------------------------------------------------------------------
(* The normalisation paths on generated price data *)

Returned == pc = "returned"

IsFetch == arg.fn \in {"fetchPolymarketEvent", "fetchKalshiEvent"}

\* the raw markets handed to the function and the markets it produced
RawMarkets ==
    IF IsFetch THEN arg.reply.markets ELSE arg.reply.events[1].markets

Produced ==
    IF result.threw THEN <<>>
    ELSE IF IsFetch
         THEN (IF result.value = None THEN <<>> ELSE result.value[1].markets)
         ELSE result.value

IsPercent(x) == ~IsNaN(x) /\ 0 <= x /\ x <= Num(100)

IsDecimal(x) == ~IsNaN(x) /\ 0 <= x /\ x <= Num(1)

\* the decimal probability a search market of DFlow quotes: the mid of ask
\* and bid, or the one of them that is there
QuotedDecimal(market) ==
    IF ~IsNaN(market.yesAsk) /\ ~IsNaN(market.yesBid)
    THEN (market.yesAsk + market.yesBid) \div 2
    ELSE IF ~IsNaN(market.yesAsk) THEN market.yesAsk ELSE market.yesBid

\* the upstream price is valid in the representation of its endpoint
ValidPrice(market) ==
    CASE arg.fn \in {"fetchPolymarketEvent", "searchPolymarket"} ->
            /\ market.outcomePrices.kind = "array"
            /\ IsDecimal(market.outcomePrices.first)
      [] arg.fn = "fetchKalshiEvent" ->
            \/ IsPercent(market.last_price)
            \/ IsPercent(market.yes_bid) /\ IsPercent(market.yes_ask)
      [] arg.fn = "searchKalshi" ->
            /\ IsNaN(market.yesAsk) \/ IsDecimal(market.yesAsk)
            /\ IsNaN(market.yesBid) \/ IsDecimal(market.yesBid)
            /\ ~IsNaN(market.yesAsk) \/ ~IsNaN(market.yesBid)

\* yesPrice is the percentage of the price the market quotes
OnPercentScale(market, yesPrice) ==
    /\ IsPercent(yesPrice)
    /\ arg.fn \in {"fetchPolymarketEvent", "searchPolymarket"} =>
            yesPrice = 100 * market.outcomePrices.first
    /\ arg.fn = "searchKalshi" => yesPrice = 100 * QuotedDecimal(market)

(* C16: Price scale.  Every SimplifiedMarket produced by any of the four   *)
(* normalisation paths has its yesPrice on the 0-100 scale whenever the    *)
(* upstream price is valid in the representation of its endpoint (decimal  *)
(* probability strings for outcomePrices and yesAsk/yesBid, 0-100 numbers  *)
(* for last_price / yes_bid / yes_ask).                                    *)
C16_PriceScale ==
    Returned =>
        /\ Len(Produced) = Len(RawMarkets)
        /\ \A i \in 1..Len(RawMarkets) :
              ValidPrice(RawMarkets[i]) =>
                  OnPercentScale(RawMarkets[i], Produced[i].yesPrice)

(* C17: Default price.  In every normalisation path a market whose price   *)
(* data is absent or unparsable (no outcomePrices, outcomePrices that is   *)
(* not a JSON array of numbers or is an empty array, no last_price and no  *)
(* yes_bid/yes_ask, no yesAsk and no yesBid) gets yesPrice exactly 50, and *)
(* the normalisation does not fail.                                        *)
NoUsablePrice(market) ==
    CASE arg.fn \in {"fetchPolymarketEvent", "searchPolymarket"} ->
            \/ market.outcomePrices.kind # "array"
            \/ IsNaN(market.outcomePrices.first)
      [] arg.fn = "fetchKalshiEvent" ->
            /\ IsNaN(market.last_price)
            /\ IsNaN(market.yes_bid)
            /\ IsNaN(market.yes_ask)
      [] arg.fn = "searchKalshi" ->
            IsNaN(market.yesAsk) /\ IsNaN(market.yesBid)

C17_DefaultPrice ==
    Returned =>
        /\ ~result.threw
        /\ Len(Produced) = Len(RawMarkets)
        /\ \A i \in 1..Len(RawMarkets) :
              NoUsablePrice(RawMarkets[i]) => Produced[i].yesPrice = Num(50)

-----------------------------------------------------------------------------
(* C19: Source projection price.  For every source event whose first       *)
(* market has a usable yesPrice p in 0..100 (p = 0 included), the          *)
(* projected ArbitrageMarketData has yesPrice = p and noPrice = 100 - p,   *)
(* on the full path and on the early exit; 50 is used only when the first  *)
(* market has no usable price.                                             *)
C19_SourceProjectionPrice ==
    (Responded /\ response[1].success) =>
        LET slot == SlotOf(response[1].data[1], sourcePlatform)[1]
            p == sourceEvent[1].markets[1].yesPrice
        IN IF IsPercent(p)
           THEN slot.yesPrice = p /\ slot.noPrice = Num(100) - p
           ELSE slot.yesPrice = Num(50) /\ slot.noPrice = Num(50)

-----------------------------------------------------------------------------
(* C20: Query post-processing.  For every raw completion text the query    *)
(* returned by generateSearchQuery contains no single or double quote, has *)
(* at most two whitespace-separated tokens (the first two of the cleaned   *)
(* text, in order) and joins them with exactly one space; when the cleaned *)
(* text is empty the query is the empty string, the AI backend is not      *)
(* called again, and the search is still issued exactly once with that     *)
(* empty query.                                                            *)
RawText == arg.reply.output[1].text

\* the raw text without its quote characters
Unquoted == SelectSeq(RawText, LAMBDA c : c \notin {"'", "\""})

Blank(c) == c \in {" ", "\n"}

\* positions of Unquoted at which a token begins, and where that token ends
TokenStarts ==
    {i \in 1..Len(Unquoted) :
        ~Blank(Unquoted[i]) /\ (i = 1 \/ Blank(Unquoted[i - 1]))}

TokenEnd(i) ==
    CHOOSE j \in i..Len(Unquoted) :
        /\ \A k \in i..j : ~Blank(Unquoted[k])
        /\ j = Len(Unquoted) \/ Blank(Unquoted[j + 1])

Token(i) == SubSeq(Unquoted, i, TokenEnd(i))

FirstStart == CHOOSE i \in TokenStarts : \A j \in TokenStarts : i <= j

SecondStart ==
    CHOOSE i \in TokenStarts \ {FirstStart} :
        \A j \in TokenStarts \ {FirstStart} : i <= j

FirstTwoTokens ==
    IF TokenStarts = {} THEN <<>>
    ELSE IF Cardinality(TokenStarts) = 1 THEN Token(FirstStart)
    ELSE Token(FirstStart) \o <<" ">> \o Token(SecondStart)

QueryOf(q) ==
    /\ \A i \in 1..Len(q) : q[i] \notin {"'", "\"", "\n"}
    /\ Cardinality({i \in 1..Len(q) : q[i] = " "}) <= 1
    /\ q = FirstTwoTokens

EmptyQueryCase ==
    /\ HasAnswer("query")
    /\ AnswerOf("query") = "ok"
    /\ searchQuery = <<>>

C20_QueryPostProcessing ==
    /\ (Returned /\ arg.fn = "generateSearchQuery") =>
            ~result.threw /\ QueryOf(result.value)
    /\ EmptyQueryCase =>
            /\ Count("query") = 1
            /\ Count("search") = 1
            /\ calls[Len(calls)].step \in {"search", "judge"}

\* three tokens in the text: the first two are kept, in their order
C20_Witness ==
    /\ Returned
    /\ arg.fn = "generateSearchQuery"
    /\ RawText = <<"rate", "\n", "fed", " ", "rate">>
    /\ result.value = <<"rate", " ", "fed">>

\* an empty completion: the query is empty and the search is issued with it
C20_WitnessEmpty ==
    /\ EmptyQueryCase
    /\ pc = "done"
    /\ Count("query") = 1
    /\ Count("search") = 1
    /\ HasAnswer("search")

-----------------------------------------------------------------------------
(* C21, as stated: Status/success agreement.  Across all requests a        *)
(* response has status 200 if and only if its body has success = true and  *)
(* a data field; every response with status 400, 404, 405 or 500 has       *)
(* success = false, an error text and no data field; an OPTIONS request is *)
(* answered with no body and without any pipeline step; any method other   *)
(* than POST or OPTIONS yields 405.                                        *)
SuccessBody ==
    /\ response[1].hasBody
    /\ response[1].success
    /\ response[1].data # None

FailureBody ==
    /\ response[1].hasBody
    /\ ~response[1].success
    /\ response[1].error # ""
    /\ response[1].data = None

MethodRules ==
    /\ response[1].status \in {400, 404, 405, 500} => FailureBody
    /\ req.method = "OPTIONS" => ~response[1].hasBody /\ calls = <<>>
    /\ req.method \notin {"POST", "OPTIONS"} => response[1].status = 405

C21_StatusSuccess ==
    Responded =>
        /\ response[1].status = 200 <=> SuccessBody
        /\ MethodRules

(* C21, amended: among the responses that carry a body, the status is 200  *)
(* if and only if the body has success = true and a data field; an OPTIONS *)
(* request is answered with status 200, no body and no pipeline step; the  *)
(* rest as stated.                                                         *)
C21_StatusSuccessOfBodies ==
    Responded =>
        /\ response[1].hasBody => (response[1].status = 200 <=> SuccessBody)
        /\ ~response[1].hasBody =>
                req.method = "OPTIONS" /\ response[1].status = 200
        /\ response[1].status \in {200, 400, 404, 405, 500}
        /\ MethodRules

\* the preflight is answered: status 200 and no body
C21_Witness ==
    /\ Responded
    /\ req.method = "OPTIONS"
    /\ response[1].status = 200
    /\ ~response[1].hasBody
    /\ calls = <<>>

-----------------------------------------------------------------------------
(* C22: Opposite-platform targeting.  In every request that passes URL     *)
(* resolution the fetch is issued only against the platform detected from  *)
(* the URL and the search only against the other platform; in every        *)
(* success response metadata.sourceMarket and metadata.searchedMarket are  *)
(* the two distinct platforms, sourceMarket being the detected one.        *)
Detected ==
    IF HasDomain(url, "polymarket.com") THEN "polymarket"
    ELSE IF HasDomain(url, "kalshi.com") THEN "kalshi" ELSE ""

Opposite == {"polymarket", "kalshi"} \ {Detected}

C22_OppositePlatform ==
    /\ \A i \in 1..Len(calls) :
          /\ calls[i].step = "fetch" => calls[i].target = Detected
          /\ calls[i].step = "search" => calls[i].target \in Opposite
    /\ (Responded /\ response[1].success) =>
          /\ response[1].metadata[1].sourceMarket = Detected
          /\ response[1].metadata[1].searchedMarket \in Opposite
          /\ Detected \in {"polymarket", "kalshi"}

\* a Kalshi event judged against candidates found on Polymarket
C22_Witness ==
    /\ Responded
    /\ response[1].success
    /\ HasAnswer("judge")
    /\ Detected = "kalshi"
    /\ \E i \in 1..Len(calls) :
          calls[i].step = "fetch" /\ calls[i].target = "kalshi"
    /\ \E i \in 1..Len(calls) :
          calls[i].step = "search" /\ calls[i].target = "polymarket"
    /\ response[1].metadata[1].sourceMarket = "kalshi"
    /\ response[1].metadata[1].searchedMarket = "polymarket"

-----------------------------------------------------------------------------
(* C23: Judge precondition and termination.  The Judge is invoked exactly  *)
(* when the search returned at least one candidate, and at every           *)
(* invocation its source event has at least one market and its candidate   *)
(* list is non-empty; and provided every awaited upstream call eventually  *)
(* returns or throws, every request eventually produces exactly one        *)
(* response and executes no further step after it.                         *)
SearchFoundCandidates == HasAnswer("search") /\ Len(searchResults) >= 1

JudgePrecondition ==
    /\ Count("judge") >= 1 <=> SearchFoundCandidates
    /\ Count("judge") >= 1 =>
          /\ sourceEvent # None
          /\ Len(sourceEvent[1].markets) >= 1
          /\ Len(searchResults) >= 1

Finished == pc = "done" /\ Responded

C23_JudgeAndTermination ==
    /\ []JudgePrecondition
    /\ <>[]Finished
    /\ [][~Responded /\ (Responded' => pc' = "done")]_vars

\* the Judge was invoked on candidates and the request has been answered
C23_Witness ==
    /\ Finished
    /\ Count("judge") = 1
    /\ HasAnswer("judge")
    /\ SearchFoundCandidates
    /\ Len(sourceEvent[1].markets) >= 1
    /\ response[1].status = 200

====
